---------------------------- MODULE Spec2Model ----------------------------
(***************************************************************************)
(* Natural-language-to-SQL query pipeline of backend-makers:               *)
(* QueryProcessor (query_processor.py), GeminiService (llm.py) and         *)
(* DatabaseService with the execute_dynamic_query function (database.py).  *)
(*                                                                         *)
(* Strings are sequences of one-character strings, so that strip(),        *)
(* lower(), startswith(), the `in` substring test and ILIKE are computed   *)
(* character by character as the code computes them.                       *)
(***************************************************************************)
EXTENDS Integers, Sequences, FiniteSets, TLC

(***************************************************************************)
(* Bounds of the model.                                                    *)
(***************************************************************************)
\* number of fragments a generated SQL string is concatenated from
MaxChunks == 2
\* number of requests the service handles in one behaviour
MaxRuns == 2
\* largest number of clock ticks a collaborator call may take
MaxDelay == 1
\* number of rows the database may return beyond the narration cap
ExtraRows == 1

\* the largest initial stock of a product
MaxStock == 3

\* the largest quantity of an order item
MaxQty == 2

(***************************************************************************)
(* Python str primitives                                                   *)
(***************************************************************************)
UpperLetters == <<"A","B","C","D","E","F","G","H","I","J","K","L","M","N","O","P","Q","R","S","T","U","V","W","X","Y","Z">>
LowerLetters == <<"a","b","c","d","e","f","g","h","i","j","k","l","m","n","o","p","q","r","s","t","u","v","w","x","y","z">>

\* str.isspace() for the ASCII whitespace characters str.strip() removes
IsSpace(c) == c \in {" ", "\t", "\n", "\r", "\f"}

LowerChar(c) ==
    IF \E i \in 1..Len(UpperLetters) : UpperLetters[i] = c
    THEN LowerLetters[CHOOSE i \in 1..Len(UpperLetters) : UpperLetters[i] = c]
    ELSE c

\* str.lower()
Lower(s) == [i \in 1..Len(s) |-> LowerChar(s[i])]

\* str.strip()
Strip(s) ==
    IF \A i \in 1..Len(s) : IsSpace(s[i]) THEN << >>
    ELSE LET first == CHOOSE i \in 1..Len(s) :
                         /\ ~IsSpace(s[i])
                         /\ \A j \in 1..(i - 1) : IsSpace(s[j])
             last  == CHOOSE i \in 1..Len(s) :
                         /\ ~IsSpace(s[i])
                         /\ \A j \in (i + 1)..Len(s) : IsSpace(s[j])
         IN  SubSeq(s, first, last)

\* str.startswith(p)
StartsWith(s, p) == Len(s) >= Len(p) /\ SubSeq(s, 1, Len(p)) = p

\* p in s
Contains(s, p) ==
    \E i \in 1..(Len(s) - Len(p) + 1) : SubSeq(s, i, i + Len(p) - 1) = p


(***************************************************************************)
(* SQL strings: concatenations of fragments                                *)
(***************************************************************************)
SELECT_PREFIX == <<"s","e","l","e","c","t">>

\* fragments the generated SQL strings of the gate specification are made of
SqlChunks ==
    { <<"s","e","l","e","c","t"," ">>, <<"S","E","L","E","C","T"," ">>, <<" "," ","S","e","L","e","C","t">>, <<" ">>, <<"w","i","t","h"," ">>,
      <<"W","I","T","H"," ","x"," ","A","S"," ","(">>, <<"*"," ","f","r","o","m"," ","u","s","e","r","s">>, <<"*"," ","f","r","o","m"," ","u","p","d","a","t","e","s">>,
      <<"c","r","e","a","t","e","d","_","a","t">>, <<"d","r">>, <<"o","p"," ">>, <<"i","d">>, <<";">>,
      <<"d","r","o","p">>, <<"d","e","l","e","t","e">>, <<"i","n","s","e","r","t">>, <<"u","p","d","a","t","e">>, <<"a","l","t","e","r">>,
      <<"c","r","e","a","t","e">>, <<"t","r","u","n","c","a","t","e">>, <<"g","r","a","n","t">>, <<"r","e","v","o","k","e">>, <<"e","x","e","c">>,
      <<"e","x","e","c","u","t","e">>, <<"D","E","L","E","T","E">>, <<"G","r","a","n","t">> }

RECURSIVE Flatten(_)
Flatten(ss) == IF ss = << >> THEN << >> ELSE Head(ss) \o Flatten(Tail(ss))

SqlStrings ==
    { Flatten(cs) : cs \in UNION { [1..n -> SqlChunks] : n \in 0..MaxChunks } }

(***************************************************************************)
(* QueryProcessor.validate_query_safety                                    *)
(***************************************************************************)
DangerousOperationsWithoutGrant ==
    << <<"d","r","o","p">>, <<"d","e","l","e","t","e">>, <<"i","n","s","e","r","t">>, <<"u","p","d","a","t","e">>, <<"a","l","t","e","r">>,
       <<"c","r","e","a","t","e">>, <<"t","r","u","n","c","a","t","e">>, <<"r","e","v","o","k","e">>, <<"e","x","e","c">>, <<"e","x","e","c","u","t","e">> >>

dangerous_operations ==
    << <<"d","r","o","p">>, <<"d","e","l","e","t","e">>, <<"i","n","s","e","r","t">>, <<"u","p","d","a","t","e">>, <<"a","l","t","e","r">>,
       <<"c","r","e","a","t","e">>, <<"t","r","u","n","c","a","t","e">>, <<"g","r","a","n","t">>, <<"r","e","v","o","k","e">>, <<"e","x","e","c">>,
       <<"e","x","e","c","u","t","e">> >>

CleanedQueryNoStrip(sql_query) == Lower(sql_query)

\* cleaned_query = sql_query.strip().lower()
cleaned_query(sql_query) == Lower(Strip(sql_query))

StartsWithSelectOrWith(cleaned) ==
    StartsWith(cleaned, SELECT_PREFIX) \/ StartsWith(cleaned, <<"w","i","t","h">>)

\* cleaned_query.startswith('select')
StartsWithSelect(cleaned) == StartsWith(cleaned, SELECT_PREFIX)

\* the first denylisted operation found in the cleaned query, if any
ContainsDangerous(cleaned) ==
    \E i \in 1..Len(dangerous_operations) :
        Contains(cleaned, dangerous_operations[i])

\* TRUE is the verdict SAFE, FALSE the verdict UNSAFE
validate_query_safety(sql_query) ==
    LET cleaned == cleaned_query(sql_query)
    IN  IF ContainsDangerous(cleaned) THEN FALSE
        ELSE IF ~StartsWithSelect(cleaned) THEN FALSE
        ELSE TRUE

(***************************************************************************)
(* execute_dynamic_query, the database-side function (DATABASE_SCHEMA)     *)
(***************************************************************************)
\* query_text ILIKE 'p%'
ILikePrefix(query_text, p) == StartsWith(Lower(query_text), Lower(p))

\* query_text ILIKE '%p%'
ILikeInfix(query_text, p) == Contains(Lower(query_text), Lower(p))

DbKeywords ==
    << <<"D","R","O","P">>, <<"D","E","L","E","T","E">>, <<"U","P","D","A","T","E">>, <<"I","N","S","E","R","T">>, <<"C","R","E","A","T","E">>,
       <<"A","L","T","E","R">>, <<"T","R","U","N","C","A","T","E">> >>

RefusalByPrefixOnly(query_text) ==
    IF ~(ILikePrefix(query_text, <<"S","E","L","E","C","T">>) \/ ILikePrefix(query_text, <<"W","I","T","H">>))
    THEN <<"Solo se permiten consultas SELECT y WITH">>
    ELSE << >>

\* the message of the exception execute_dynamic_query raises, << >> if none
execute_dynamic_query_refusal(query_text) ==
    IF ~(ILikePrefix(query_text, <<"S","E","L","E","C","T">>) \/ ILikePrefix(query_text, <<"W","I","T","H">>))
    THEN <<"Solo se permiten consultas SELECT y WITH">>
    ELSE IF \E i \in 1..Len(DbKeywords) : ILikeInfix(query_text, DbKeywords[i])
    THEN <<"Operaciones no permitidas detectadas">>
    ELSE << >>

(***************************************************************************)
(* Exceptions: a class and a message (a sequence of message parts)         *)
(***************************************************************************)
NoExc == [cls |-> "", msg |-> << >>]

Exc(cls, msg) == [cls |-> cls, msg |-> msg]

\* isinstance(e, ValueError): json.JSONDecodeError and pydantic's
\* ValidationError are subclasses of ValueError
IsValueError(cls) == cls \in {"ValueError", "JSONDecodeError", "ValidationError"}

IsConnectionError(cls) == cls = "ConnectionError"

\* ", ".join(parts)
RECURSIVE Join(_)
Join(parts) ==
    IF Len(parts) <= 1 THEN parts
    ELSE <<Head(parts), ", ">> \o Join(Tail(parts))

(***************************************************************************)
(* Model output: a text is a sequence of lexical tokens                    *)
(***************************************************************************)
NoVal == [ty |-> "null", s |-> << >>, n |-> 0]

StrVal(s) == [ty |-> "str", s |-> s, n |-> 0]

\* numbers are counted in tenths: NumVal(5) is 0.5
NumVal(n) == [ty |-> "num", s |-> << >>, n |-> n]

\* kinds: prose, ws, fence_json, fence, lbrace, rbrace, garbage
Tok(kind) == [t |-> kind, k |-> "", v |-> NoVal]

\* a "key": value pair of a JSON object
Member(key, val) == [t |-> "member", k |-> key, v |-> val]

LB == Tok("lbrace")

RB == Tok("rbrace")

\* response_text.find('{'), 1-based, 0 when absent (Python: -1)
FindLB(text) ==
    IF \E i \in 1..Len(text) : text[i] = LB
    THEN CHOOSE i \in 1..Len(text) :
             text[i] = LB /\ \A j \in 1..(i - 1) : text[j] # LB
    ELSE 0

\* response_text.rfind('}') + 1, 1-based inclusive end, 0 when absent
RFindRB(text) ==
    IF \E i \in 1..Len(text) : text[i] = RB
    THEN CHOOSE i \in 1..Len(text) :
             text[i] = RB /\ \A j \in (i + 1)..Len(text) : text[j] # RB
    ELSE 0

\* str.replace('```json', '').replace('```', '')
RECURSIVE RemoveFences(_)
RemoveFences(text) ==
    IF text = << >> THEN << >>
    ELSE IF Head(text).t \in {"fence_json", "fence"} THEN RemoveFences(Tail(text))
    ELSE <<Head(text)>> \o RemoveFences(Tail(text))

\* str.strip() on a token text
StripWs(text) ==
    IF \A i \in 1..Len(text) : text[i].t = "ws" THEN << >>
    ELSE LET first == CHOOSE i \in 1..Len(text) :
                         text[i].t # "ws" /\ \A j \in 1..(i - 1) : text[j].t = "ws"
             last  == CHOOSE i \in 1..Len(text) :
                         text[i].t # "ws" /\ \A j \in (i + 1)..Len(text) : text[j].t = "ws"
         IN  SubSeq(text, first, last)

CleanJsonResponseWithoutSlicing(response_text) ==
    [exc |-> NoExc, val |-> StripWs(RemoveFences(response_text))]

\* GeminiService._clean_json_response: [exc, val]
clean_json_response(response_text) ==
    LET start_idx == FindLB(response_text)
        end_idx   == RFindRB(response_text)
    IN  IF start_idx = 0 \/ end_idx = 0
        THEN [exc |-> Exc("ValueError", <<"No valid JSON found in response">>),
              val |-> << >>]
        ELSE [exc |-> NoExc,
              val |-> StripWs(RemoveFences(SubSeq(response_text, start_idx, end_idx)))]

\* json.loads: the payload is an object iff it is { members }
JsonIsObject(payload) ==
    /\ Len(payload) >= 2
    /\ payload[1] = LB
    /\ payload[Len(payload)] = RB
    /\ \A i \in 2..(Len(payload) - 1) : payload[i].t \in {"member", "ws"}

\* key in result_dict
HasKey(payload, key) ==
    \E i \in 1..Len(payload) : payload[i].t = "member" /\ payload[i].k = key

\* result_dict.get(key, default): the last member of that key wins
DictGet(payload, key, default) ==
    IF HasKey(payload, key)
    THEN LET i == CHOOSE i \in 1..Len(payload) :
                     /\ payload[i].t = "member" /\ payload[i].k = key
                     /\ \A j \in (i + 1)..Len(payload) :
                            ~(payload[j].t = "member" /\ payload[j].k = key)
         IN  payload[i].v
    ELSE default

(***************************************************************************)
(* GeminiService.human_query_to_sql                                        *)
(***************************************************************************)
\* SQLQueryResult(sql_query: str, original_query: str, confidence: Optional[float])
SQLQueryResultValid(sql, oq, conf) ==
    sql.ty = "str" /\ oq.ty = "str" /\ conf.ty \in {"num", "null"}

SQLQueryResult(sql, oq, conf) ==
    [sql_query |-> sql.s, original_query |-> oq.s,
     confidence |-> IF conf.ty = "null" THEN << >> ELSE <<conf.n>>]

TranslateInnerExcWithoutKeyCheck(human_query, reply) ==
    IF reply.raises THEN Exc("Exception", <<"model call failed">>)
    ELSE IF reply.text = << >>
    THEN Exc("Exception", <<"Gemini did not generate a response">>)
    ELSE LET cleaned == clean_json_response(reply.text)
         IN  IF cleaned.exc # NoExc THEN cleaned.exc
             ELSE IF ~JsonIsObject(cleaned.val)
             THEN Exc("JSONDecodeError", <<"Expecting value">>)
             ELSE IF ~SQLQueryResultValid(
                         DictGet(cleaned.val, "sql_query", StrVal(<< >>)),
                         DictGet(cleaned.val, "original_query", StrVal(human_query)),
                         DictGet(cleaned.val, "confidence", NumVal(5)))
             THEN Exc("ValidationError", <<"validation error for SQLQueryResult">>)
             ELSE NoExc

\* the exception raised inside the try block of human_query_to_sql, or NoExc
TranslateInnerExc(human_query, reply) ==
    IF reply.raises THEN Exc("Exception", <<"model call failed">>)
    ELSE IF reply.text = << >>
    THEN Exc("Exception", <<"Gemini did not generate a response">>)
    ELSE LET cleaned == clean_json_response(reply.text)
         IN  IF cleaned.exc # NoExc THEN cleaned.exc
             ELSE IF ~JsonIsObject(cleaned.val)
             THEN Exc("JSONDecodeError", <<"Expecting value">>)
             ELSE IF ~HasKey(cleaned.val, "sql_query")
             THEN Exc("ValueError", <<"Respuesta de Gemini no contiene 'sql_query'">>)
             ELSE IF ~SQLQueryResultValid(
                         DictGet(cleaned.val, "sql_query", StrVal(<< >>)),
                         DictGet(cleaned.val, "original_query", StrVal(human_query)),
                         DictGet(cleaned.val, "confidence", NumVal(5)))
             THEN Exc("ValidationError", <<"validation error for SQLQueryResult">>)
             ELSE NoExc

TranslateErrorPassingThrough(inner) == inner

\* the two except clauses of human_query_to_sql
TranslateError(inner) ==
    IF inner.cls = "JSONDecodeError"
    THEN Exc("Exception", <<"Error in Gemini response format: ">> \o inner.msg)
    ELSE Exc("Exception", <<"Error processing query with Gemini: ">> \o inner.msg)

\* [exc, val]: the exception raised, or the SQLQueryResult returned
human_query_to_sql(llm_model, human_query, reply) ==
    IF ~llm_model
    THEN [exc |-> Exc("ConnectionError", <<"Gemini client not initialized">>),
          val |-> << >>]
    ELSE LET inner == TranslateInnerExc(human_query, reply)
         IN  IF inner # NoExc
             THEN [exc |-> TranslateError(inner), val |-> << >>]
             ELSE LET d == clean_json_response(reply.text).val
                  IN  [exc |-> NoExc,
                       val |-> SQLQueryResult(
                                   DictGet(d, "sql_query", StrVal(<< >>)),
                                   DictGet(d, "original_query", StrVal(human_query)),
                                   DictGet(d, "confidence", NumVal(5)))]

(***************************************************************************)
(* DatabaseService.execute_query                                           *)
(***************************************************************************)
\* [exc, val]: reply is what the rpc call does when the function accepts
\* the statement: [raises, data]
execute_query(supabase_client, sql_query, reply) ==
    IF ~supabase_client
    THEN [exc |-> Exc("ConnectionError", <<"Supabase client not initialized">>),
          val |-> << >>]
    ELSE IF execute_dynamic_query_refusal(sql_query) # << >>
    THEN [exc |-> Exc("Exception", <<"Error executing query: ">>
                          \o execute_dynamic_query_refusal(sql_query)),
          val |-> << >>]
    ELSE IF reply.raises
    THEN [exc |-> Exc("Exception", <<"Error executing query: ", "storage failure">>),
          val |-> << >>]
    ELSE [exc |-> NoExc, val |-> reply.data]

(***************************************************************************)
(* GeminiService.build_answer                                              *)
(***************************************************************************)
RowCap == 10

LimitedResultUncapped(query_result) == query_result

\* query_result[:10] if len(query_result) > 10 else query_result
limited_result(query_result) ==
    IF Len(query_result) > RowCap THEN SubSeq(query_result, 1, RowCap)
    ELSE query_result

BuildAnswerAcceptingEmpty(llm_model, query_result, human_query, reply) ==
    IF ~llm_model
    THEN [exc |-> Exc("ConnectionError", <<"Gemini client not initialized">>),
          val |-> << >>]
    ELSE IF reply.raises
    THEN [exc |-> Exc("Exception", <<"Error generating natural response: ",
                                     "model call failed">>),
          val |-> << >>]
    ELSE [exc |-> NoExc, val |-> Strip(reply.text)]

\* [exc, val]: reply is [raises, text], text a character string
build_answer(llm_model, query_result, human_query, reply) ==
    IF ~llm_model
    THEN [exc |-> Exc("ConnectionError", <<"Gemini client not initialized">>),
          val |-> << >>]
    ELSE IF reply.raises
    THEN [exc |-> Exc("Exception", <<"Error generating natural response: ",
                                     "model call failed">>),
          val |-> << >>]
    ELSE IF reply.text = << >>
    THEN [exc |-> Exc("Exception", <<"Error generating natural response: ",
                          "Gemini did not generate a response for build_answer">>),
          val |-> << >>]
    ELSE [exc |-> NoExc, val |-> Strip(reply.text)]

(***************************************************************************)
(* QueryProcessor                                                          *)
(***************************************************************************)
VerifyFirstFailure(supabase_client, llm_model) ==
    IF ~supabase_client
    THEN Exc("ValueError", <<"Services not configured: ", "Supabase is not configured">>)
    ELSE IF ~llm_model
    THEN Exc("ValueError", <<"Services not configured: ", "Gemini is not configured">>)
    ELSE NoExc

\* QueryProcessor._verify_services_configured: the ValueError raised, or NoExc
verify_services_configured(supabase_client, llm_model) ==
    LET errors ==
            (IF ~supabase_client THEN <<"Supabase is not configured">> ELSE << >>)
            \o (IF ~llm_model THEN <<"Gemini is not configured">> ELSE << >>)
    IN  IF errors # << >>
        THEN Exc("ValueError", <<"Services not configured: ">> \o Join(errors))
        ELSE NoExc

\* QueryProcessor._create_error_response: ErrorResponse(...).dict()
\* details << >> is None
create_error_response(error_message, details, now) ==
    [error |-> error_message, details |-> details, timestamp |-> now]

\* HumanQueryResponse(...).dict()
HumanQueryResponse(answer, sql_query, execution_time) ==
    [answer |-> answer, sql_query |-> sql_query, execution_time |-> execution_time]

SecurityRejection(now) ==
    create_error_response(<<"SQL query not allowed for security reasons">>,
                          <<"Only SELECT queries are allowed">>, now)

ExceptClausesWithoutGeneric(e, now) ==
    IF IsValueError(e.cls)
    THEN [caught |-> TRUE,
          response |-> create_error_response(
              <<"Service not configured correctly">>,
              <<"Verify your Supabase and Gemini configuration in the .env file">>,
              now)]
    ELSE IF IsConnectionError(e.cls)
    THEN [caught |-> TRUE,
          response |-> create_error_response(
              <<"Connection error with services">>,
              <<"Verify your internet connectivity and credentials">>, now)]
    ELSE [caught |-> FALSE, response |-> << >>]

ExceptClausesDroppingMessage(e, now) ==
    IF IsValueError(e.cls) \/ IsConnectionError(e.cls)
    THEN ExceptClausesWithoutGeneric(e, now)
    ELSE [caught |-> TRUE,
          response |-> create_error_response(<<"Error processing query: ">>, << >>, now)]

\* the except clauses of process_human_query
ExceptClauses(e, now) ==
    IF IsValueError(e.cls)
    THEN [caught |-> TRUE,
          response |-> create_error_response(
              <<"Service not configured correctly">>,
              <<"Verify your Supabase and Gemini configuration in the .env file">>,
              now)]
    ELSE IF IsConnectionError(e.cls)
    THEN [caught |-> TRUE,
          response |-> create_error_response(
              <<"Connection error with services">>,
              <<"Verify your internet connectivity and credentials">>, now)]
    ELSE [caught |-> TRUE,
          response |-> create_error_response(
              <<"Error processing query: ">> \o e.msg, << >>, now)]

(***************************************************************************)
(* Inputs: questions and what the collaborators answer                     *)
(***************************************************************************)
Questions == { <<"s","h","o","w"," ","a","l","l"," ","u","s","e","r","s">>, <<"h","o","w"," ","m","a","n","y"," ","o","r","d","e","r","s">> }

\* SQL statements the model writes in the pipeline specification
PipelineSql ==
    { <<"S","E","L","E","C","T"," ","*"," ","F","R","O","M"," ","u","s","e","r","s">>, <<"D","R","O","P"," ","T","A","B","L","E"," ","u","s","e","r","s">>, <<"s","e","l","e","c","t"," ","*"," ","f","r","o","m"," ","u","p","d","a","t","e","s">>,
      <<" "," ","s","e","l","e","c","t"," ","n","a","m","e"," ","f","r","o","m"," ","p","r","o","d","u","c","t","s"," ">>, <<"W","I","T","H"," ","t"," ","A","S"," ","(","S","E","L","E","C","T"," ","1",")"," ","S","E","L","E","C","T"," ","*"," ","F","R","O","M"," ","t">>,
      << >>, <<"s","e","l","e","c","t"," ","g","r","a","n","t","_","i","d"," ","f","r","o","m"," ","o","r","d","e","r","s">> }

SqlMember(sql) == Member("sql_query", StrVal(sql))

\* texts the model returns for the translation prompt
TranslateTexts ==
    { <<LB, SqlMember(sql), RB>> : sql \in PipelineSql }
    \cup { <<Tok("prose"), Tok("ws"), Tok("fence_json"), Tok("ws"), LB,
             SqlMember(sql), RB, Tok("ws"), Tok("fence")>> : sql \in PipelineSql }
    \cup { <<LB, SqlMember(sql), Member("original_query", StrVal(<<"u","s","e","r","s">>)),
             Member("confidence", conf), RB>> :
               sql \in PipelineSql, conf \in {NumVal(9), NumVal(70), NoVal} }
    \cup { << >>,
           <<Tok("prose")>>,
           <<RB, Tok("prose"), LB>>,
           <<LB, Member("foo", NumVal(10)), RB>>,
           <<LB, Tok("garbage"), RB>>,
           <<LB, Member("sql_query", NoVal), RB>>,
           <<LB, SqlMember(<<"S","E","L","E","C","T"," ","1">>), Member("confidence", StrVal(<<"h","i","g","h">>)), RB>> }

TranslateReplies ==
    { [raises |-> FALSE, text |-> t] : t \in TranslateTexts }
    \cup { [raises |-> TRUE, text |-> << >>] }

\* the rows of a result of n rows, in result order
Rows(n) == [i \in 1..n |-> i]

DbReplies ==
    { [raises |-> FALSE, data |-> Rows(n)] : n \in {0, 1, RowCap, RowCap + ExtraRows} }
    \cup { [raises |-> TRUE, data |-> << >>] }

ComposeReplies ==
    { [raises |-> FALSE, text |-> t] :
        t \in { << >>, <<" ">>, <<"T","h","e","r","e"," ","a","r","e"," ","3"," ","u","s","e","r","s","."," ">> } }
    \cup { [raises |-> TRUE, text |-> << >>] }

\* the human_query of a request to POST /api/v1/query
RequestQueries == Questions \cup { << >>, <<" "," ">> }

(***************************************************************************)
(* State                                                                   *)
(***************************************************************************)
VARIABLES
    supabase,        \* database_service.supabase is set
    model,           \* gemini_service.model is set
    debug,           \* settings.DEBUG
    runs,            \* requests handled so far
    pc,              \* position of the run in process_human_query
    human_query,     \* the run's question
    sql_result,      \* << >> or <<SQLQueryResult>>
    query_result,    \* << >> or <<rows>>
    natural_answer,  \* << >> or <<text>>
    outcome,         \* << >> or <<the dict process_human_query returns>>
    raised,          \* << >> or <<the exception the run's try block raised>>
    propagated,      \* an exception left process_human_query
    elapsed,         \* time.time() - start_time
    calls,           \* calls issued in this run
    gate_arg,        \* << >> or <<the string validate_query_safety was given>>
    verdict,         \* "none", "SAFE", "UNSAFE"
    exec_arg,        \* << >> or <<the string execute_query was given>>
    compose_arg,     \* << >> or <<the rows build_answer was given>>
    prompt_rows,     \* << >> or <<the rows embedded in the narration prompt>>
    trace,           \* the states the run went through
    cause,           \* what made the run fail, "" while it has not failed
    translate_reply, \* << >> or <<what the model did for the translation prompt>>
    db_reply,        \* << >> or <<what the rpc call did>>
    compose_reply,   \* << >> or <<what the model did for the narration prompt>>
    http,            \* << >> or <<the response of POST /api/v1/query>>
    prev,            \* << >> or <<the failure report of the previous run>>
    health,          \* << >> or <<the response of GET /api/v1/health>>
    probe,           \* << >> or <<what the two health probes met>>
    parked,          \* the suspended requests, each the state of its run
    stock,           \* products.stock, by product
    stock0,          \* products.stock before the first request
    orders,          \* the rows of the orders table
    users,           \* the rows of the users table
    task,            \* the locals of the order and register handlers
    last             \* << >> or <<the last update_order_status call>>

vars == <<supabase, model, debug, runs, pc, human_query, sql_result, query_result,
          natural_answer, outcome, raised, propagated, elapsed, calls,
          gate_arg, verdict, exec_arg, compose_arg, prompt_rows, trace,
          cause, translate_reply, db_reply, compose_reply, http, prev, health,
          probe, parked, stock, stock0, orders, users, task, last>>

config == <<supabase, model, debug>>

\* what a step of a query run leaves alone: the health endpoint and the
\* suspended requests
shop == <<stock, stock0, orders, users, task, last>>

aside == <<health, probe, parked, shop>>

Products == {"p1", "p2"}

Handlers == {1, 2}

\* the locals of a handler of POST /api/v1/orders/user/{user_id} or of
\* POST /api/v1/users/register
IdleTask ==
    [pc |-> "idle", items |-> << >>, i |-> 0, errors |-> 0, read |-> 0,
     order |-> 0, row |-> << >>, before |-> << >>, email |-> "",
     created |-> FALSE, status |-> 0]

\* the tables as the pipeline specifications leave them
ShopIdle ==
    /\ stock = [p \in Products |-> 0]
    /\ stock0 = [p \in Products |-> 0]
    /\ orders = << >>
    /\ users = << >>
    /\ task = [h \in Handlers |-> IdleTask]
    /\ last = << >>

NoCalls == [translate |-> 0, gate |-> 0, execute |-> 0, compose |-> 0]

RunInit ==
    /\ human_query = << >>
    /\ sql_result = << >>
    /\ query_result = << >>
    /\ natural_answer = << >>
    /\ outcome = << >>
    /\ raised = << >>
    /\ propagated = FALSE
    /\ elapsed = 0
    /\ calls = NoCalls
    /\ gate_arg = << >>
    /\ verdict = "none"
    /\ exec_arg = << >>
    /\ compose_arg = << >>
    /\ prompt_rows = << >>
    /\ trace = << >>
    /\ cause = ""
    /\ translate_reply = << >>
    /\ db_reply = << >>
    /\ compose_reply = << >>
    /\ http = << >>

Init ==
    /\ supabase \in BOOLEAN
    /\ model \in BOOLEAN
    /\ debug \in BOOLEAN
    /\ runs = 0
    /\ prev = << >>
    /\ health = << >>
    /\ probe = << >>
    /\ parked = << >>
    /\ pc = "IDLE"
    /\ RunInit
    /\ ShopIdle

\* the run moves on to the next state
Advance(label) ==
    /\ pc' = label
    /\ trace' = Append(trace, label)
    /\ UNCHANGED <<outcome, raised, propagated, cause>>

\* an exception raised in the try block reaches the except clauses;
\* why is the failure that raised it
Fail(e, now, why) ==
    LET h == ExceptClauses(e, now)
    IN  /\ raised' = <<e>>
        /\ cause' = why
        /\ propagated' = ~h.caught
        /\ outcome' = IF h.caught THEN <<h.response>> ELSE << >>
        /\ pc' = "ERROR"
        /\ trace' = Append(trace, "ERROR")

(***************************************************************************)
(* routes/queries.py: POST /api/v1/query                                   *)
(***************************************************************************)
\* the i-th request is accepted once the one before it has been answered
CanAccept == pc = "IDLE" \/ (pc \in {"DONE", "ERROR"} /\ http # << >>)

\* the report kept of the request that the next one replaces
Report ==
    IF pc = "ERROR" /\ outcome # << >>
    THEN <<[cause |-> cause, error |-> outcome[1].error,
            details |-> outcome[1].details,
            msg |-> IF raised = << >> THEN << >> ELSE raised[1].msg,
            http |-> http]>>
    ELSE << >>

\* the locals of a request handler that has just been entered
Fresh ==
    /\ sql_result' = << >>
    /\ query_result' = << >>
    /\ natural_answer' = << >>
    /\ outcome' = << >>
    /\ raised' = << >>
    /\ propagated' = FALSE
    /\ elapsed' = 0
    /\ calls' = NoCalls
    /\ gate_arg' = << >>
    /\ verdict' = "none"
    /\ exec_arg' = << >>
    /\ compose_arg' = << >>
    /\ prompt_rows' = << >>
    /\ cause' = ""
    /\ translate_reply' = << >>
    /\ db_reply' = << >>
    /\ compose_reply' = << >>

\* HTTPException(status_code, detail), or the 200 response with its body
HttpError(status, detail) == [status |-> status, detail |-> detail, body |-> << >>]

HttpOk(result) == [status |-> 200, detail |-> << >>, body |-> <<result>>]

\* if not request.human_query.strip(): raise HTTPException(400, ...)
RejectEmpty ==
    /\ CanAccept
    /\ runs < MaxRuns
    /\ \E q \in RequestQueries :
          /\ Strip(q) = << >>
          /\ human_query' = q
    /\ runs' = runs + 1
    /\ Fresh
    /\ pc' = "IDLE"
    /\ trace' = << >>
    /\ http' = <<HttpError(400, <<"Query cannot be empty">>)>>
    /\ prev' = Report
    /\ UNCHANGED <<config, aside>>

\* a request of one of the given questions enters process_human_query
BeginWith(questions) ==
    /\ CanAccept
    /\ runs < MaxRuns
    /\ \E q \in questions : human_query' = q
    /\ runs' = runs + 1
    /\ Fresh
    /\ pc' = "START"
    /\ trace' = <<"START">>
    /\ http' = << >>
    /\ prev' = Report
    /\ UNCHANGED <<config, aside>>

BeginUnchecked == BeginWith(RequestQueries)

\* result = await query_processor.process_human_query(request.human_query);
\* start_time = time.time()
Begin == BeginWith({ q \in RequestQueries : Strip(q) # << >> })

\* what the route answers once process_human_query is over
route_response(result, escaped) ==
    IF escaped THEN HttpError(500, <<"Internal server error">>)
    ELSE IF "error" \in DOMAIN result[1] THEN HttpError(400, result[1].error)
    ELSE HttpOk(result[1])

\* if "error" in result: raise HTTPException(400, result["error"]); return result
Respond ==
    /\ pc \in {"DONE", "ERROR"}
    /\ http = << >>
    /\ http' = <<route_response(outcome, propagated)>>
    /\ UNCHANGED <<config, aside, runs, prev, pc, human_query, sql_result,
                   query_result, natural_answer, outcome, raised, propagated,
                   elapsed, calls, gate_arg, verdict, exec_arg, compose_arg,
                   prompt_rows, trace, cause, translate_reply, db_reply,
                   compose_reply>>

\* await self._verify_services_configured()
VerifyServices ==
    /\ pc = "START"
    /\ LET e == verify_services_configured(supabase, model)
       IN  IF e = NoExc THEN Advance("SERVICES_CHECKED")
           ELSE Fail(e, elapsed, "unconfigured")
    /\ UNCHANGED <<config, aside, runs, prev, human_query, sql_result,
                   query_result, natural_answer, elapsed, calls, gate_arg,
                   verdict, exec_arg, compose_arg, prompt_rows,
                   translate_reply, db_reply, compose_reply, http>>

(***************************************************************************)
(* query_processor.py: the steps of process_human_query                    *)
(***************************************************************************)
\* what made a failed translation fail
TranslateCause(reply) ==
    IF reply.raises THEN "model_call"
    ELSE IF reply.text = << >> THEN "empty_text"
    ELSE "unparseable"

\* what made a failed composition fail
ComposeCause(reply) ==
    IF reply.raises THEN "model_call" ELSE "empty_text"

TranslateRetrying ==
    /\ pc = "SERVICES_CHECKED"
    /\ \E reply \in TranslateReplies, d \in 0..MaxDelay :
          LET r == human_query_to_sql(model, human_query, reply)
          IN  /\ calls' = [calls EXCEPT !.translate = @ + 1]
              /\ translate_reply' = <<reply>>
              /\ elapsed' = elapsed + d
              /\ IF r.exc = NoExc
                 THEN sql_result' = <<r.val>> /\ Advance("TRANSLATED")
                 ELSE IF calls.translate = 0
                 THEN UNCHANGED <<sql_result, pc, trace, outcome, raised, propagated,
                                  cause>>
                 ELSE UNCHANGED sql_result /\ Fail(r.exc, elapsed', TranslateCause(reply))
    /\ UNCHANGED <<config, aside, runs, prev, human_query, query_result,
                   natural_answer, gate_arg, verdict, exec_arg, compose_arg,
                   prompt_rows, db_reply, compose_reply, http>>

\* the translation step, the model answering with one of the given replies
\* after one of the given delays
TranslateWith(replies, delays) ==
    /\ pc = "SERVICES_CHECKED"
    /\ \E reply \in replies, d \in delays :
          LET r == human_query_to_sql(model, human_query, reply)
          IN  /\ calls' = [calls EXCEPT !.translate = @ + (IF model THEN 1 ELSE 0)]
              /\ translate_reply' = <<reply>>
              /\ elapsed' = elapsed + d
              /\ IF r.exc = NoExc
                 THEN sql_result' = <<r.val>> /\ Advance("TRANSLATED")
                 ELSE UNCHANGED sql_result /\ Fail(r.exc, elapsed', TranslateCause(reply))
    /\ UNCHANGED <<config, aside, runs, prev, human_query, query_result,
                   natural_answer, gate_arg, verdict, exec_arg, compose_arg,
                   prompt_rows, db_reply, compose_reply, http>>

\* sql_result = await self.llm.human_query_to_sql(human_query, database_schema)
Translate == TranslateWith(TranslateReplies, 0..MaxDelay)

SafetyCheckLoggingOnly ==
    /\ pc = "TRANSLATED"
    /\ LET sql == sql_result[1].sql_query
       IN  /\ gate_arg' = <<sql>>
           /\ verdict' = IF validate_query_safety(sql) THEN "SAFE" ELSE "UNSAFE"
           /\ calls' = [calls EXCEPT !.gate = @ + 1]
           /\ Advance("SAFETY_CHECKED")
    /\ UNCHANGED <<config, aside, runs, prev, human_query, sql_result,
                   query_result, natural_answer, elapsed, exec_arg, compose_arg,
                   prompt_rows, translate_reply, db_reply, compose_reply, http>>

SafetyCheckWithThreshold ==
    /\ pc = "TRANSLATED"
    /\ LET sql  == sql_result[1].sql_query
           conf == sql_result[1].confidence
           safe == validate_query_safety(sql) /\ (conf = << >> \/ conf[1] >= 5)
       IN  /\ gate_arg' = <<sql>>
           /\ verdict' = IF safe THEN "SAFE" ELSE "UNSAFE"
           /\ calls' = [calls EXCEPT !.gate = @ + 1]
           /\ IF safe
              THEN Advance("SAFETY_CHECKED")
              ELSE /\ outcome' = <<SecurityRejection(elapsed)>>
                   /\ pc' = "ERROR"
                   /\ trace' = Append(trace, "ERROR")
                   /\ cause' = "rejected"
                   /\ UNCHANGED <<raised, propagated>>
    /\ UNCHANGED <<config, aside, runs, prev, human_query, sql_result,
                   query_result, natural_answer, elapsed, exec_arg, compose_arg,
                   prompt_rows, translate_reply, db_reply, compose_reply, http>>

\* if not await self.validate_query_safety(sql_result.sql_query): return error
SafetyCheck ==
    /\ pc = "TRANSLATED"
    /\ LET sql  == sql_result[1].sql_query
           safe == validate_query_safety(sql)
       IN  /\ gate_arg' = <<sql>>
           /\ verdict' = IF safe THEN "SAFE" ELSE "UNSAFE"
           /\ calls' = [calls EXCEPT !.gate = @ + 1]
           /\ IF safe
              THEN Advance("SAFETY_CHECKED")
              ELSE /\ outcome' = <<SecurityRejection(elapsed)>>
                   /\ pc' = "ERROR"
                   /\ trace' = Append(trace, "ERROR")
                   /\ cause' = "rejected"
                   /\ UNCHANGED <<raised, propagated>>
    /\ UNCHANGED <<config, aside, runs, prev, human_query, sql_result,
                   query_result, natural_answer, elapsed, exec_arg, compose_arg,
                   prompt_rows, translate_reply, db_reply, compose_reply, http>>

\* the executor's step, given the states it may start from, the statement it
\* hands to execute_query, and what the database may do and how long it takes
ExecuteWith(from, sql, replies, delays) ==
    /\ pc \in from
    /\ \E reply \in replies, d \in delays :
          LET r == execute_query(supabase, sql, reply)
          IN  /\ exec_arg' = <<sql>>
              /\ db_reply' = <<reply>>
              /\ calls' = [calls EXCEPT !.execute = @ + (IF supabase THEN 1 ELSE 0)]
              /\ elapsed' = elapsed + d
              /\ IF r.exc = NoExc
                 THEN query_result' = <<r.val>> /\ Advance("EXECUTED")
                 ELSE UNCHANGED query_result /\ Fail(r.exc, elapsed', "database")
    /\ UNCHANGED <<config, aside, runs, prev, human_query, sql_result,
                   natural_answer, gate_arg, verdict, compose_arg, prompt_rows,
                   translate_reply, compose_reply, http>>

ExecuteStep(from, sql) == ExecuteWith(from, sql, DbReplies, 0..MaxDelay)

ExecuteBeforeGate ==
    ExecuteStep({"TRANSLATED", "SAFETY_CHECKED"}, sql_result[1].sql_query)

ExecuteCleanedQuery ==
    ExecuteStep({"SAFETY_CHECKED"}, cleaned_query(sql_result[1].sql_query))

\* query_result = await self.database.execute_query(sql_result.sql_query)
Execute ==
    ExecuteStep({"SAFETY_CHECKED"}, sql_result[1].sql_query)

\* the narration step, the model answering with one of the given replies
\* after one of the given delays
ComposeWith(replies, delays) ==
    /\ pc = "EXECUTED"
    /\ \E reply \in replies, d \in delays :
          LET r == build_answer(model, query_result[1], human_query, reply)
          IN  /\ compose_arg' = <<query_result[1]>>
              /\ prompt_rows' = <<limited_result(query_result[1])>>
              /\ compose_reply' = <<reply>>
              /\ calls' = [calls EXCEPT !.compose = @ + (IF model THEN 1 ELSE 0)]
              /\ elapsed' = elapsed + d
              /\ IF r.exc = NoExc
                 THEN natural_answer' = <<r.val>> /\ Advance("COMPOSED")
                 ELSE UNCHANGED natural_answer
                      /\ Fail(r.exc, elapsed', ComposeCause(reply))
    /\ UNCHANGED <<config, aside, runs, prev, human_query, sql_result,
                   query_result, gate_arg, verdict, exec_arg, translate_reply,
                   db_reply, http>>

\* natural_answer = await self.llm.build_answer(query_result, human_query)
Compose == ComposeWith(ComposeReplies, 0..MaxDelay)

AssembleNumberingAnswers ==
    /\ pc = "COMPOSED"
    /\ outcome' = <<HumanQueryResponse(
                        natural_answer[1] \o <<IF runs = 1 THEN "1" ELSE "2">>,
                        sql_result[1].sql_query, elapsed)>>
    /\ pc' = "DONE"
    /\ trace' = Append(trace, "DONE")
    /\ UNCHANGED <<config, aside, runs, prev, human_query, sql_result,
                   query_result, natural_answer, raised, propagated, elapsed,
                   calls, gate_arg, verdict, exec_arg, compose_arg, prompt_rows,
                   cause, translate_reply, db_reply, compose_reply, http>>

\* response = HumanQueryResponse(...); return response.dict()
Assemble ==
    /\ pc = "COMPOSED"
    /\ outcome' = <<HumanQueryResponse(natural_answer[1], sql_result[1].sql_query,
                                       elapsed)>>
    /\ pc' = "DONE"
    /\ trace' = Append(trace, "DONE")
    /\ UNCHANGED <<config, aside, runs, prev, human_query, sql_result,
                   query_result, natural_answer, raised, propagated, elapsed,
                   calls, gate_arg, verdict, exec_arg, compose_arg, prompt_rows,
                   cause, translate_reply, db_reply, compose_reply, http>>

Next ==
    \/ RejectEmpty
    \/ Begin
    \/ VerifyServices
    \/ Translate
    \/ SafetyCheck
    \/ Execute
    \/ Compose
    \/ Assemble
    \/ Respond

Spec == Init /\ [][Next]_vars

(***************************************************************************)
(* The safety gate on its own: one call of validate_query_safety on a      *)
(* generated string                                                        *)
(***************************************************************************)
InitGate ==
    /\ supabase = TRUE
    /\ model = TRUE
    /\ debug = FALSE
    /\ runs = 0
    /\ pc = "IDLE"
    /\ human_query = << >>
    /\ sql_result = << >>
    /\ query_result = << >>
    /\ natural_answer = << >>
    /\ outcome = << >>
    /\ raised = << >>
    /\ propagated = FALSE
    /\ elapsed = 0
    /\ calls = NoCalls
    /\ gate_arg \in { <<sql>> : sql \in SqlStrings }
    /\ verdict = "none"
    /\ exec_arg = << >>
    /\ compose_arg = << >>
    /\ prompt_rows = << >>
    /\ trace = << >>
    /\ cause = ""
    /\ translate_reply = << >>
    /\ db_reply = << >>
    /\ compose_reply = << >>
    /\ http = << >>
    /\ prev = << >>
    /\ health = << >>
    /\ probe = << >>
    /\ parked = << >>
    /\ ShopIdle

GateCall ==
    /\ pc = "IDLE"
    /\ gate_arg # << >>
    /\ verdict = "none"
    /\ verdict' = IF validate_query_safety(gate_arg[1]) THEN "SAFE" ELSE "UNSAFE"
    /\ calls' = [calls EXCEPT !.gate = @ + 1]
    /\ UNCHANGED <<config, aside, runs, pc, human_query, sql_result,
                   query_result, natural_answer, outcome, raised, propagated,
                   elapsed, gate_arg, exec_arg, compose_arg, prompt_rows, trace,
                   cause, translate_reply, db_reply, compose_reply, http, prev>>

NextGate == GateCall

SpecGate == InitGate /\ [][NextGate]_vars

(***************************************************************************)
(* GET /api/v1/health                                                      *)
(***************************************************************************)
\* what the model returns for the health prompt
HealthTexts ==
    { << >>, <<" ">>, <<"O","K">>, <<"o","k">>, <<"O","k",".">>, <<"T","h","e"," ","s","e","r","v","i","c","e"," ","w","o","r","k","s",":"," ","O","K">>,
      <<"b","r","o","k","e","n">>, <<"T","o","k","e","n"," ","l","i","m","i","t">> }

HealthReplies ==
    { [raises |-> FALSE, text |-> t] : t \in HealthTexts }
    \cup { [raises |-> TRUE, text |-> << >>] }

\* DatabaseService.health_check; ping_raises: the select on users raised
database_health_check(supabase_client, ping_raises) ==
    IF ~supabase_client THEN FALSE
    ELSE ~ping_raises

\* GeminiService.health_check
llm_health_check(llm_model, reply) ==
    IF ~llm_model THEN FALSE
    ELSE IF reply.raises THEN FALSE
    ELSE reply.text # << >> /\ Contains(Lower(reply.text), <<"o","k">>)

\* QueryProcessor._get_status_message
get_status_message(status, database_health, llm_health) ==
    IF status = "healthy" THEN <<"All services are working correctly">>
    ELSE IF status = "degraded"
    THEN <<"Problems with: ">>
         \o Join((IF ~database_health THEN <<"Supabase">> ELSE << >>)
                 \o (IF ~llm_health THEN <<"Gemini">> ELSE << >>))
    ELSE IF status = "unhealthy"
    THEN <<"Critical services unavailable - check your configuration">>
    ELSE <<"Unknown system status">>

GetHealthStatusNeverUnhealthy(database_health, llm_health) ==
    LET overall_status == IF database_health /\ llm_health THEN "healthy"
                          ELSE "degraded"
    IN  [status |-> overall_status,
         services |-> [database |-> database_health, llm |-> llm_health],
         message |-> get_status_message(overall_status, database_health, llm_health)]

\* QueryProcessor.get_health_status, given what the two probes answered
get_health_status(database_health, llm_health) ==
    LET first == IF database_health /\ llm_health THEN "healthy" ELSE "degraded"
        overall_status == IF ~database_health /\ ~llm_health THEN "unhealthy"
                          ELSE first
    IN  [status |-> overall_status,
         services |-> [database |-> database_health, llm |-> llm_health],
         message |-> get_status_message(overall_status, database_health, llm_health)]

\* the route's answer: the report with 200 or 503 when the response renders;
\* when JSONResponse cannot render the content (it holds the datetime of
\* timestamp), the error raised in the try block is raised again by the
\* response of the except block and the global handler answers 500
health_response(report, renders) ==
    IF renders
    THEN [status_code |-> IF report.status = "healthy" THEN 200 ELSE 503,
          report |-> <<report>>]
    ELSE [status_code |-> 500, report |-> << >>]

\* one request to the health endpoint
HealthCheck ==
    /\ \E ping_raises \in BOOLEAN, reply \in HealthReplies, renders \in BOOLEAN :
          LET database_health == database_health_check(supabase, ping_raises)
              llm_health      == llm_health_check(model, reply)
          IN  /\ probe' = <<[ping |-> IF supabase THEN <<ping_raises>> ELSE << >>,
                             reply |-> IF model THEN <<reply>> ELSE << >>,
                             report |-> get_health_status(database_health, llm_health)]>>
              /\ health' = <<health_response(probe'[1].report, renders)>>
    /\ UNCHANGED <<config, parked, shop, runs, prev, pc, human_query, sql_result,
                   query_result, natural_answer, outcome, raised, propagated,
                   elapsed, calls, gate_arg, verdict, exec_arg, compose_arg,
                   prompt_rows, trace, cause, translate_reply, db_reply,
                   compose_reply, http>>

NextHealth == HealthCheck

SpecHealth == Init /\ [][NextHealth]_vars

(***************************************************************************)
(* Two requests served by the one QueryProcessor, their steps interleaved: *)
(* the variables of a run are the locals of the handler that is running,   *)
(* parked holds the locals of the handler that is suspended                *)
(***************************************************************************)
ConcQuestions == { <<"s","h","o","w"," ","a","l","l"," ","u","s","e","r","s">> }

ConcTranslateReplies ==
    { [raises |-> FALSE, text |-> t] :
        t \in { <<LB, SqlMember(<<"S","E","L","E","C","T"," ","*"," ","F","R","O","M"," ","u","s","e","r","s">>), RB>>,
                <<LB, SqlMember(<<"s","e","l","e","c","t"," ","n","a","m","e"," ","f","r","o","m"," ","p","r","o","d","u","c","t","s">>), RB>>,
                <<LB, SqlMember(<<"D","R","O","P"," ","T","A","B","L","E"," ","u","s","e","r","s">>), RB>>,
                << >> }
              \cup { <<LB, SqlMember(<<"S","E","L","E","C","T"," ","*"," ","F","R","O","M"," ","u","s","e","r","s">>),
                        Member("confidence", conf), RB>> :
                          conf \in {NumVal(2), NoVal, StrVal(<<"h","i","g","h">>)} } }

ConcDbReplies ==
    { [raises |-> FALSE, data |-> Rows(0)],
      [raises |-> FALSE, data |-> Rows(1)],
      [raises |-> TRUE, data |-> << >>] }

ConcComposeReplies ==
    { [raises |-> FALSE, text |-> t] :
        t \in { << >>, <<"N","o"," ","s","t","o","c","k"," ","a","v","a","i","l","a","b","l","e">>, <<"T","h","e","r","e"," ","a","r","e"," ","3"," ","u","s","e","r","s","."," ">> } }

\* the locals of the running handler
Locals ==
    [pc |-> pc, human_query |-> human_query, sql_result |-> sql_result,
     query_result |-> query_result, natural_answer |-> natural_answer,
     outcome |-> outcome, raised |-> raised, propagated |-> propagated,
     elapsed |-> elapsed, calls |-> calls, gate_arg |-> gate_arg,
     verdict |-> verdict, exec_arg |-> exec_arg, compose_arg |-> compose_arg,
     prompt_rows |-> prompt_rows, trace |-> trace, cause |-> cause,
     translate_reply |-> translate_reply, db_reply |-> db_reply,
     compose_reply |-> compose_reply, http |-> http]

\* the locals of a handler that has not been entered
IdleLocals ==
    [pc |-> "IDLE", human_query |-> << >>, sql_result |-> << >>,
     query_result |-> << >>, natural_answer |-> << >>,
     outcome |-> << >>, raised |-> << >>, propagated |-> FALSE,
     elapsed |-> 0, calls |-> NoCalls, gate_arg |-> << >>,
     verdict |-> "none", exec_arg |-> << >>, compose_arg |-> << >>,
     prompt_rows |-> << >>, trace |-> << >>, cause |-> "",
     translate_reply |-> << >>, db_reply |-> << >>,
     compose_reply |-> << >>, http |-> << >>]

InitConc ==
    /\ supabase \in BOOLEAN
    /\ model \in BOOLEAN
    /\ debug = FALSE
    /\ runs = 0
    /\ prev = << >>
    /\ health = << >>
    /\ probe = << >>
    /\ parked = <<IdleLocals>>
    /\ pc = "IDLE"
    /\ RunInit
    /\ ShopIdle

\* the running handler resumes with the given locals
Resume(r) ==
    /\ pc' = r.pc
    /\ human_query' = r.human_query
    /\ query_result' = r.query_result
    /\ natural_answer' = r.natural_answer
    /\ outcome' = r.outcome
    /\ raised' = r.raised
    /\ propagated' = r.propagated
    /\ elapsed' = r.elapsed
    /\ calls' = r.calls
    /\ gate_arg' = r.gate_arg
    /\ verdict' = r.verdict
    /\ exec_arg' = r.exec_arg
    /\ compose_arg' = r.compose_arg
    /\ prompt_rows' = r.prompt_rows
    /\ trace' = r.trace
    /\ cause' = r.cause
    /\ translate_reply' = r.translate_reply
    /\ db_reply' = r.db_reply
    /\ compose_reply' = r.compose_reply
    /\ http' = r.http

SwitchSharingCandidate ==
    /\ parked # << >>
    /\ parked' = <<Locals>>
    /\ Resume(parked[1])
    /\ UNCHANGED <<sql_result, config, runs, prev, health, probe, shop>>

\* the event loop suspends the running handler at an await and resumes the
\* other one; each handler keeps its own locals
Switch ==
    /\ parked # << >>
    /\ parked' = <<Locals>>
    /\ Resume(parked[1])
    /\ sql_result' = parked[1].sql_result
    /\ UNCHANGED <<config, runs, prev, health, probe, shop>>

NextConc ==
    \/ BeginWith(ConcQuestions)
    \/ VerifyServices
    \/ TranslateWith(ConcTranslateReplies, {0})
    \/ SafetyCheck
    \/ ExecuteWith({"SAFETY_CHECKED"}, sql_result[1].sql_query, ConcDbReplies, {0})
    \/ ComposeWith(ConcComposeReplies, {0})
    \/ Assemble
    \/ Respond
    \/ Switch

SpecConc == InitConc /\ [][NextConc]_vars

(***************************************************************************)
(* The executor on its own: one call of execute_query on a statement,      *)
(* without the gate                                                        *)
(***************************************************************************)
InitExec ==
    /\ supabase \in BOOLEAN
    /\ model = TRUE
    /\ debug = FALSE
    /\ runs = 0
    /\ pc = "IDLE"
    /\ human_query = << >>
    /\ sql_result = << >>
    /\ query_result = << >>
    /\ natural_answer = << >>
    /\ outcome = << >>
    /\ raised = << >>
    /\ propagated = FALSE
    /\ elapsed = 0
    /\ calls = NoCalls
    /\ gate_arg = << >>
    /\ verdict = "none"
    /\ exec_arg \in { <<sql>> : sql \in SqlStrings }
    /\ compose_arg = << >>
    /\ prompt_rows = << >>
    /\ trace = << >>
    /\ cause = ""
    /\ translate_reply = << >>
    /\ db_reply = << >>
    /\ compose_reply = << >>
    /\ http = << >>
    /\ prev = << >>
    /\ health = << >>
    /\ probe = << >>
    /\ parked = << >>
    /\ ShopIdle

\* await database_service.execute_query(sql_query)
ExecCall ==
    /\ pc = "IDLE"
    /\ exec_arg # << >>
    /\ db_reply = << >>
    /\ \E reply \in DbReplies :
          LET r == execute_query(supabase, exec_arg[1], reply)
          IN  /\ db_reply' = <<reply>>
              /\ calls' = [calls EXCEPT !.execute = @ + (IF supabase THEN 1 ELSE 0)]
              /\ IF r.exc = NoExc
                 THEN query_result' = <<r.val>> /\ UNCHANGED raised
                 ELSE raised' = <<r.exc>> /\ UNCHANGED query_result
    /\ UNCHANGED <<config, aside, runs, prev, pc, human_query, sql_result,
                   natural_answer, outcome, propagated, elapsed, gate_arg,
                   verdict, exec_arg, compose_arg, prompt_rows, trace, cause,
                   translate_reply, compose_reply, http>>

NextExec == ExecCall

SpecExec == InitExec /\ [][NextExec]_vars

(***************************************************************************)
(* The orders, products and users tables and their request handlers       *)
(***************************************************************************)
\* what the steps of the shop leave alone: the query pipeline
pipeline ==
    <<config, health, probe, parked, prev, pc, human_query, sql_result,
      query_result, natural_answer, outcome, raised, propagated, elapsed,
      calls, gate_arg, verdict, exec_arg, compose_arg, prompt_rows, trace,
      cause, translate_reply, db_reply, compose_reply, http>>

\* products.price
Price == [p \in Products |-> IF p = "p1" THEN 5 ELSE 7]

\* the items a create-order request may hold: OrderItemCreate, quantity > 0
OrderItems ==
    { [product_id |-> "p1", quantity |-> q, unit_price |-> 5] : q \in 1..MaxQty }
    \cup { [product_id |-> "p2", quantity |-> 1, unit_price |-> 7],
           [product_id |-> "p1", quantity |-> 1, unit_price |-> 6] }

\* OrderCreate.items
ItemLists ==
    { <<a>> : a \in OrderItems } \cup { <<a, b>> : a, b \in OrderItems }

\* the item lists of the requests that are handled concurrently
ConcItemLists ==
    { <<[product_id |-> "p1", quantity |-> q, unit_price |-> 5]>> : q \in 1..MaxQty }
    \cup { <<[product_id |-> "p1", quantity |-> 1, unit_price |-> 5],
             [product_id |-> "p1", quantity |-> 1, unit_price |-> 5]>> }

\* what validate_order_items finds wrong with an item, "" if nothing; the
\* prices are whole numbers, so that two prices differ by more than 0.01 as
\* soon as they differ
validate_item(item, product) ==
    IF item.quantity > product.stock THEN "Insufficient stock"
    ELSE IF item.unit_price # product.price THEN "Price mismatch"
    ELSE ""

Max(a, b) == IF a > b THEN a ELSE b

NewStockUnclamped(current_stock, quantity_change) == current_stock + quantity_change

\* new_stock = max(0, current_stock + quantity_change)
new_stock(current_stock, quantity_change) == Max(0, current_stock + quantity_change)

\* the handler h moves on
Step(h, t) == task' = [task EXCEPT ![h] = t]

\* a create-order request with one of the given item lists arrives at
\* handler h
OrderRequest(h, lists) ==
    /\ task[h].pc \in {"idle", "done"}
    /\ runs < MaxRuns
    /\ runs' = runs + 1
    /\ \E items \in lists :
          Step(h, [IdleTask EXCEPT !.pc = "validate", !.items = items, !.i = 1,
                                   !.before = <<stock>>])
    /\ UNCHANGED <<stock, stock0, orders, users, last, pipeline>>

\* validate_order_items: one turn of its loop, on the product row as it is
\* now; when the read raises, or after the last item, the route answers 400
\* or goes on to create_order
ValidateItem(h) ==
    /\ task[h].pc = "validate"
    /\ \E fails \in BOOLEAN :
          LET t       == task[h]
              item    == t.items[t.i]
              product == [stock |-> stock[item.product_id],
                          price |-> Price[item.product_id]]
              errors  == t.errors
                         + (IF validate_item(item, product) = "" THEN 0 ELSE 1)
          IN  IF fails
              THEN Step(h, [t EXCEPT !.pc = "done", !.status = 400])
              ELSE IF t.i < Len(t.items)
              THEN Step(h, [t EXCEPT !.i = t.i + 1, !.errors = errors])
              ELSE IF errors > 0
              THEN Step(h, [t EXCEPT !.errors = errors, !.pc = "done",
                                     !.status = 400])
              ELSE Step(h, [t EXCEPT !.pc = "insert_order", !.i = 1])
    /\ UNCHANGED <<runs, stock, stock0, orders, users, last, pipeline>>

CreateOrderAsNew(items) == [status |-> "new", items |-> items]

\* order_data = {'user_id': ..., 'total_price': ..., 'status': 'pending'}
create_order_row(items) == [status |-> "pending", items |-> items]

\* orders.insert(order_data): the row is stored, or the call fails and
\* create_order returns None, which the route answers with 400
InsertOrder(h) ==
    /\ task[h].pc = "insert_order"
    /\ \E fails \in BOOLEAN :
          IF fails
          THEN /\ Step(h, [task[h] EXCEPT !.pc = "done", !.status = 400])
               /\ UNCHANGED orders
          ELSE /\ orders' = Append(orders, create_order_row(task[h].items))
               /\ Step(h, [task[h] EXCEPT !.pc = "insert_item",
                                          !.order = Len(orders) + 1,
                                          !.row = <<create_order_row(task[h].items)>>])
    /\ UNCHANGED <<runs, stock, stock0, users, last, pipeline>>

\* order_items.insert(order_item_data); when the call raises, create_order
\* returns None and the route answers 400, the order row staying stored
InsertItem(h) ==
    /\ task[h].pc = "insert_item"
    /\ \E fails \in BOOLEAN :
          IF fails
          THEN Step(h, [task[h] EXCEPT !.pc = "done", !.status = 400])
          ELSE Step(h, [task[h] EXCEPT !.pc = "read_stock"])
    /\ UNCHANGED <<runs, stock, stock0, orders, users, last, pipeline>>

\* the end of one turn of create_order's loop over the items
NextItem(t) ==
    IF t.i < Len(t.items)
    THEN [t EXCEPT !.i = t.i + 1, !.pc = "insert_item"]
    ELSE [t EXCEPT !.pc = "done", !.status = 200]

\* _update_product_stock: products.select('stock'); when the row is not
\* returned or the call raises, it returns False, which create_order ignores
ReadStock(h) ==
    /\ task[h].pc = "read_stock"
    /\ \E fails \in BOOLEAN :
          IF fails
          THEN Step(h, NextItem(task[h]))
          ELSE Step(h, [task[h] EXCEPT
                           !.read = stock[task[h].items[task[h].i].product_id],
                           !.pc = "write_stock"])
    /\ UNCHANGED <<runs, stock, stock0, orders, users, last, pipeline>>

\* _update_product_stock: products.update({'stock': new_stock}); when the
\* call raises, it returns False, which create_order ignores
WriteStock(h) ==
    /\ task[h].pc = "write_stock"
    /\ \E fails \in BOOLEAN :
          LET item == task[h].items[task[h].i]
          IN  stock' = IF fails THEN stock
                       ELSE [stock EXCEPT ![item.product_id] =
                                new_stock(task[h].read, -item.quantity)]
    /\ Step(h, NextItem(task[h]))
    /\ UNCHANGED <<runs, stock0, orders, users, last, pipeline>>

\* the products table before the first request
InitShop ==
    /\ supabase = TRUE
    /\ model = TRUE
    /\ debug = FALSE
    /\ runs = 0
    /\ prev = << >>
    /\ health = << >>
    /\ probe = << >>
    /\ parked = << >>
    /\ pc = "IDLE"
    /\ RunInit
    /\ stock \in [Products -> 0..MaxStock]
    /\ stock0 = stock
    /\ orders = << >>
    /\ users = << >>
    /\ task = [h \in Handlers |-> IdleTask]
    /\ last = << >>

\* the steps of the create-order handlers hs, their requests taken from lists
OrderSteps(hs, lists) ==
    \E h \in hs :
        \/ OrderRequest(h, lists)
        \/ ValidateItem(h)
        \/ InsertOrder(h)
        \/ InsertItem(h)
        \/ ReadStock(h)
        \/ WriteStock(h)

\* create-order requests handled one after another
NextOrders == OrderSteps({1}, ItemLists)

SpecOrders == InitShop /\ [][NextOrders]_vars

\* create-order requests handled by two handlers at once, each database call
\* a step of its own
NextOrdersConc == OrderSteps(Handlers, ConcItemLists)

SpecOrdersConc == InitShop /\ [][NextOrdersConc]_vars

(***************************************************************************)
(* update_order_status                                                     *)
(***************************************************************************)
valid_statuses == {"pending", "processing", "shipped", "delivered", "cancelled"}

\* the status values a caller may send
StatusValues == valid_statuses \cup {"refunded", "PENDING", ""}

\* the order ids a caller may send, one of them of no stored order
OrderIds == 1..(MaxRuns + 1)

UpdateOrderStatusUnvalidated(table, order_id, status, fails) ==
    IF fails \/ order_id \notin 1..Len(table)
    THEN [result |-> << >>, orders |-> table]
    ELSE LET row == [table[order_id] EXCEPT !.status = status]
         IN  [result |-> <<row>>, orders |-> [table EXCEPT ![order_id] = row]]

\* OrderService.update_order_status: the order returned, << >> for None, and
\* the orders table afterwards; fails: the database call raises
update_order_status(table, order_id, status, fails) ==
    IF status \notin valid_statuses
    THEN [result |-> << >>, orders |-> table]
    ELSE IF fails \/ order_id \notin 1..Len(table)
    THEN [result |-> << >>, orders |-> table]
    ELSE LET row == [table[order_id] EXCEPT !.status = status]
         IN  [result |-> <<row>>, orders |-> [table EXCEPT ![order_id] = row]]

\* a call of OrderService.update_order_status
UpdateOrderStatus ==
    /\ runs < MaxRuns
    /\ runs' = runs + 1
    /\ \E order_id \in OrderIds, status \in StatusValues, fails \in BOOLEAN :
          LET done == update_order_status(orders, order_id, status, fails)
          IN  /\ orders' = done.orders
              /\ last' = <<[order_id |-> order_id, status |-> status,
                            result |-> done.result, before |-> orders,
                            after |-> done.orders, code |-> 0]>>
    /\ UNCHANGED <<stock, stock0, users, task, pipeline>>

\* PUT /api/v1/orders/{order_id}/status
UpdateOrderStatusRoute ==
    /\ runs < MaxRuns
    /\ runs' = runs + 1
    /\ \E order_id \in OrderIds, status \in StatusValues, fails \in BOOLEAN :
          IF status \notin valid_statuses
          THEN /\ last' = <<[order_id |-> order_id, status |-> status,
                             result |-> << >>, before |-> orders,
                             after |-> orders, code |-> 400]>>
               /\ UNCHANGED orders
          ELSE LET done == update_order_status(orders, order_id, status, fails)
               IN  /\ orders' = done.orders
                   /\ last' = <<[order_id |-> order_id, status |-> status,
                                 result |-> done.result, before |-> orders,
                                 after |-> done.orders,
                                 code |-> IF done.result = << >> THEN 404 ELSE 200]>>
    /\ UNCHANGED <<stock, stock0, users, task, pipeline>>

\* the item lists of the orders whose status is updated
StatusItemLists == { <<[product_id |-> "p1", quantity |-> 1, unit_price |-> 5]>> }

\* the shop with every product fully in stock and no order or user yet
InitStocked ==
    /\ InitShop
    /\ stock = [p \in Products |-> MaxStock]

NextStatus ==
    \/ OrderSteps({1}, StatusItemLists)
    \/ UpdateOrderStatus
    \/ UpdateOrderStatusRoute

SpecStatus == InitStocked /\ [][NextStatus]_vars

(***************************************************************************)
(* POST /api/v1/users/register                                             *)
(***************************************************************************)
Emails == {"ana@shop.io", "leo@shop.io"}

\* the emails of the stored users
StoredEmails(table) == { table[k].email : k \in 1..Len(table) }

UsersInsertWithoutUnique(table, email, fails) ==
    IF fails THEN table ELSE Append(table, [email |-> email, role |-> "user"])

\* users.insert(user_data) on a table whose email column is UNIQUE: the
\* table afterwards, unchanged when the insert is refused or raises
users_insert(table, email, fails) ==
    IF fails \/ email \in StoredEmails(table)
    THEN table
    ELSE Append(table, [email |-> email, role |-> "user"])

\* get_user_by_email: whether a user is returned; fails: the call raises
\* and None is returned
get_user_by_email(table, email, fails) ==
    ~fails /\ email \in StoredEmails(table)

\* a register request arrives at handler h
RegisterRequest(h) ==
    /\ task[h].pc \in {"idle", "done"}
    /\ runs < MaxRuns
    /\ runs' = runs + 1
    /\ \E email \in Emails :
          Step(h, [IdleTask EXCEPT !.pc = "route_check", !.email = email,
                                   !.before = <<users>>])
    /\ UNCHANGED <<stock, stock0, orders, users, last, pipeline>>

\* register: existing_user = await user_service.get_user_by_email(...)
RouteCheck(h) ==
    /\ task[h].pc = "route_check"
    /\ \E fails \in BOOLEAN :
          IF get_user_by_email(users, task[h].email, fails)
          THEN Step(h, [task[h] EXCEPT !.pc = "done", !.status = 400])
          ELSE Step(h, [task[h] EXCEPT !.pc = "service_check"])
    /\ UNCHANGED <<runs, stock, stock0, orders, users, last, pipeline>>

\* create_user: existing_user = await self.get_user_by_email(email)
ServiceCheck(h) ==
    /\ task[h].pc = "service_check"
    /\ \E fails \in BOOLEAN :
          IF get_user_by_email(users, task[h].email, fails)
          THEN Step(h, [task[h] EXCEPT !.pc = "done", !.status = 400])
          ELSE Step(h, [task[h] EXCEPT !.pc = "insert_user"])
    /\ UNCHANGED <<runs, stock, stock0, orders, users, last, pipeline>>

\* create_user: the insert, and the route's answer
InsertUser(h) ==
    /\ task[h].pc = "insert_user"
    /\ \E fails \in BOOLEAN :
          /\ users' = users_insert(users, task[h].email, fails)
          /\ IF users' = users
             THEN Step(h, [task[h] EXCEPT !.pc = "done", !.status = 400])
             ELSE Step(h, [task[h] EXCEPT !.pc = "done", !.status = 200,
                                          !.created = TRUE])
    /\ UNCHANGED <<runs, stock, stock0, orders, last, pipeline>>

NextUsers ==
    \E h \in Handlers :
        \/ RegisterRequest(h)
        \/ RouteCheck(h)
        \/ ServiceCheck(h)
        \/ InsertUser(h)

SpecUsers == InitStocked /\ [][NextUsers]_vars

(***************************************************************************)
(* Properties                                                              *)
(***************************************************************************)
Range(f) == { f[i] : i \in DOMAIN f }

IsPrefix(p, q) == Len(p) <= Len(q) /\ SubSeq(q, 1, Len(p)) = p

\* the states of a run, in order
StageOrder ==
    <<"START", "SERVICES_CHECKED", "TRANSLATED", "SAFETY_CHECKED", "EXECUTED",
      "COMPOSED", "DONE">>

\* one of the eleven denylisted substrings occurs in the lower-cased text
HasDenylisted(sql) ==
    \E w \in { <<"d","r","o","p">>, <<"d","e","l","e","t","e">>, <<"i","n","s","e","r","t">>, <<"u","p","d","a","t","e">>, <<"a","l","t","e","r">>,
               <<"c","r","e","a","t","e">>, <<"t","r","u","n","c","a","t","e">>, <<"g","r","a","n","t">>, <<"r","e","v","o","k","e">>, <<"e","x","e","c">>,
               <<"e","x","e","c","u","t","e">> } : Contains(Lower(sql), w)

\* the trimmed, lower-cased text starts with select
TrimmedStartsWithSelect(sql) == StartsWith(Lower(Strip(sql)), <<"s","e","l","e","c","t">>)

\* C1: a run whose candidate the gate judged UNSAFE ends with the security
\* rejection, and neither the executor nor the composer was invoked in it.
C1_UnsafeIsRejectedBeforeExecution ==
    verdict = "UNSAFE" =>
        /\ pc = "ERROR"
        /\ outcome # << >>
        /\ outcome[1].error = <<"SQL query not allowed for security reasons">>
        /\ calls.execute = 0 /\ exec_arg = << >>
        /\ calls.compose = 0 /\ compose_arg = << >>
        /\ query_result = << >> /\ natural_answer = << >>

C1_Witness ==
    /\ verdict = "UNSAFE"
    /\ pc = "ERROR"
    /\ gate_arg = << <<"D","R","O","P"," ","T","A","B","L","E"," ","u","s","e","r","s">> >>
    /\ calls.translate = 1

\* C2: validate_query_safety answers UNSAFE for every string whose trimmed,
\* lower-cased form does not start with select, the empty string and
\* WITH-prefixed queries included.
C2_NonSelectIsUnsafe ==
    (verdict # "none" /\ ~TrimmedStartsWithSelect(gate_arg[1])) => verdict = "UNSAFE"

C2_Witness ==
    /\ verdict = "UNSAFE"
    /\ StartsWith(Lower(Strip(gate_arg[1])), <<"w","i","t","h">>)
    /\ ~HasDenylisted(gate_arg[1])

\* C3: validate_query_safety answers UNSAFE for every string whose lower-cased
\* text contains one of the eleven denylisted words as a substring, also
\* inside an identifier of a query that starts with select.
C3_DenylistedSubstringIsUnsafe ==
    (verdict # "none" /\ HasDenylisted(gate_arg[1])) => verdict = "UNSAFE"

C3_Witness ==
    /\ verdict = "UNSAFE"
    /\ gate_arg = << <<"s","e","l","e","c","t"," ","c","r","e","a","t","e","d","_","a","t">> >>

\* C4: validate_query_safety answers SAFE exactly for the strings whose
\* trimmed, lower-cased form starts with select and that contain none of the
\* eleven denylisted substrings.
C4_SafeExactlyForCleanSelect ==
    verdict # "none" =>
        (verdict = "SAFE" <=>
            (TrimmedStartsWithSelect(gate_arg[1]) /\ ~HasDenylisted(gate_arg[1])))

C4_Witness ==
    /\ verdict = "SAFE"
    /\ gate_arg = << <<" "," ","S","e","L","e","C","t","*"," ","f","r","o","m"," ","u","s","e","r","s">> >>

\* C5: within a run the states occur only in the order START,
\* SERVICES_CHECKED, TRANSLATED, SAFETY_CHECKED, EXECUTED, COMPOSED, DONE, each
\* at most once, ERROR only as the last one, and a stage's call is issued only
\* after the stage before it succeeded.
C5_StagesInOrder ==
    /\ pc # "IDLE" => pc = trace[Len(trace)]
    /\ \A i \in 1..(Len(trace) - 1) : trace[i] \notin {"ERROR", "DONE"}
    /\ IF trace # << >> /\ trace[Len(trace)] = "ERROR"
       THEN IsPrefix(SubSeq(trace, 1, Len(trace) - 1), StageOrder)
       ELSE IsPrefix(trace, StageOrder)
    /\ calls.translate > 0 => "SERVICES_CHECKED" \in Range(trace)
    /\ calls.gate > 0 => "TRANSLATED" \in Range(trace)
    /\ calls.execute > 0 => "SAFETY_CHECKED" \in Range(trace)
    /\ calls.compose > 0 => "EXECUTED" \in Range(trace)

C5_Witness ==
    /\ pc = "DONE"
    /\ trace = StageOrder
    /\ runs = MaxRuns

\* C6: in a successful run the sql_query of the outcome is the string the
\* translator produced, and the gate checked and the executor was called with
\* that same unmodified string.
C6_CandidateUnchanged ==
    /\ pc = "DONE" =>
          /\ outcome[1].sql_query = sql_result[1].sql_query
          /\ gate_arg = <<sql_result[1].sql_query>>
          /\ exec_arg = <<sql_result[1].sql_query>>
    /\ gate_arg # << >> => gate_arg = <<sql_result[1].sql_query>>
    /\ exec_arg # << >> => exec_arg = <<sql_result[1].sql_query>>

C6_Witness ==
    /\ pc = "DONE"
    /\ outcome[1].sql_query = <<"S","E","L","E","C","T"," ","*"," ","F","R","O","M"," ","u","s","e","r","s">>
    /\ exec_arg = << <<"S","E","L","E","C","T"," ","*"," ","F","R","O","M"," ","u","s","e","r","s">> >>

\* C7: a run that starts with the database client, the model client or both
\* unset fails in the services check with the configuration error, the error
\* raised names every unset dependency, and no model or database call is made.
C7_UnconfiguredFailsListingAll ==
    ((~supabase \/ ~model) /\ pc \notin {"IDLE", "START"}) =>
        /\ pc = "ERROR"
        /\ trace = <<"START", "ERROR">>
        /\ raised # << >> /\ raised[1].cls = "ValueError"
        /\ ~supabase => "Supabase is not configured" \in Range(raised[1].msg)
        /\ ~model => "Gemini is not configured" \in Range(raised[1].msg)
        /\ outcome # << >>
        /\ outcome[1].error = <<"Service not configured correctly">>
        /\ calls = NoCalls

C7_Witness ==
    /\ ~supabase /\ ~model
    /\ pc = "ERROR"
    /\ raised # << >>
    /\ raised[1].msg = <<"Services not configured: ", "Supabase is not configured",
                         ", ", "Gemini is not configured">>

\* C8: in a run the translator's model call, the executor call and the
\* composer's model call are each issued at most once, whatever fails.
C8_NoStepRetried ==
    calls.translate <= 1 /\ calls.execute <= 1 /\ calls.compose <= 1
    /\ calls.gate <= 1

C8_Witness ==
    /\ pc = "ERROR"
    /\ cause = "empty_text"
    /\ calls.translate = 1 /\ calls.execute = 1 /\ calls.compose = 1

\* C9: process_human_query lets no exception through: a failed run returns a
\* dict with error and details and no answer, a successful run one with
\* exactly answer, sql_query and execution_time.
C9_UniformOutcome ==
    /\ ~propagated
    /\ pc = "ERROR" =>
          /\ outcome # << >>
          /\ {"error", "details"} \subseteq DOMAIN outcome[1]
          /\ "answer" \notin DOMAIN outcome[1]
    /\ pc = "DONE" =>
          /\ outcome # << >>
          /\ DOMAIN outcome[1] = {"answer", "sql_query", "execution_time"}
    /\ pc \notin {"ERROR", "DONE"} => outcome = << >>

C9_Witness ==
    /\ pc = "ERROR"
    /\ cause = "database"
    /\ raised # << >> /\ raised[1].cls = "Exception"
    /\ outcome # << >>

\* the kind of failure the claim names, "" for any other cause
FailureKind(why) ==
    CASE why = "empty_text"  -> "GenerationError"
      [] why = "unparseable" -> "TranslationError"
      [] why = "database"    -> "ExecutionError"
      [] OTHER               -> ""

\* a failure report without the message of the underlying exception: the
\* headline, the label the failing service put before the message, the details
ReportLabel(report) ==
    <<SubSeq(report.error, 1, 2), report.details>>

\* this run and the one before it failed with two different kinds of failure
TwoKindsOfFailure ==
    /\ pc = "ERROR"
    /\ prev # << >>
    /\ FailureKind(cause) # ""
    /\ FailureKind(prev[1].cause) # ""
    /\ FailureKind(cause) # FailureKind(prev[1].cause)

EmptyRejected == runs > 0 /\ pc = "IDLE"

\* C11: POST /api/v1/query answers with a 4xx status only when the query was
\* empty or the safety gate rejected the candidate; every other failure of
\* the run (configuration, generation, translation, execution) is answered
\* with a 5xx status.
C11_ClientErrorOnlyForEmptyOrRejected ==
    http # << >> =>
        /\ http[1].status \in 400..499 => (EmptyRejected \/ cause = "rejected")
        /\ (pc = "ERROR" /\ cause # "rejected") => http[1].status >= 500

\* C12: a request whose human_query is empty or only whitespace is answered
\* with 400 "Query cannot be empty" by the route; process_human_query is not
\* entered for it, so no model call, gate call or database call is made, and
\* a run that was entered never has such a query.
C12_EmptyQueryStopsAtRoute ==
    /\ (runs > 0 /\ Strip(human_query) = << >>) =>
          /\ pc = "IDLE"
          /\ trace = << >>
          /\ calls = NoCalls
          /\ outcome = << >>
          /\ http = <<HttpError(400, <<"Query cannot be empty">>)>>
    /\ pc # "IDLE" => Strip(human_query) # << >>

C12_Witness ==
    /\ runs = MaxRuns
    /\ human_query = <<" "," ">>
    /\ http # << >>
    /\ http[1].status = 400
    /\ calls = NoCalls

\* the failures of generation, translation and execution
InternalFailures == {"model_call", "empty_text", "unparseable", "database"}

\* the current run failed internally and has been answered
AnsweredInternalFailure ==
    /\ pc = "ERROR"
    /\ cause \in InternalFailures
    /\ raised # << >>
    /\ http # << >>

\* C13: unless the service runs in debug mode, the response to a run that
\* failed in generation, translation or execution is generic: it carries no
\* part of the internal error text, and two runs that failed with different
\* internal messages are answered with the same response.
C13_GenericErrorUnlessDebug ==
    ~debug =>
        /\ AnsweredInternalFailure =>
              \A i \in DOMAIN http[1].detail :
                  http[1].detail[i] \notin Range(raised[1].msg)
        /\ (/\ AnsweredInternalFailure
            /\ prev # << >>
            /\ prev[1].cause \in InternalFailures
            /\ prev[1].msg # raised[1].msg) => prev[1].http = http

(***************************************************************************)
(* The translator's reading of the model text                              *)
(***************************************************************************)
\* the text the model returned for the translation prompt of this run
ModelText == translate_reply[1].text

\* the text is one JSON object with a sql_query key, with nothing but
\* commentary, blanks and code-fence markers before and after it
WrappedObject(text) ==
    \E i, j \in 1..Len(text) :
        /\ i < j
        /\ text[i] = LB
        /\ text[j] = RB
        /\ \A k \in (i + 1)..(j - 1) : text[k].t \in {"member", "ws"}
        /\ \E k \in (i + 1)..(j - 1) : text[k].t = "member" /\ text[k].k = "sql_query"
        /\ \A k \in (1..(i - 1)) \cup ((j + 1)..Len(text)) :
               text[k].t \in {"prose", "ws", "fence_json", "fence"}

\* the values the text gives for a key
KeyValues(text, key) ==
    { text[k].v : k \in { n \in 1..Len(text) : text[n].t = "member" /\ text[n].k = key } }

\* the values of the three keys have the types a candidate declares
DeclaredTypes(text) ==
    /\ \A v \in KeyValues(text, "sql_query") : v.ty = "str"
    /\ \A v \in KeyValues(text, "original_query") : v.ty = "str"
    /\ \A v \in KeyValues(text, "confidence") : v.ty \in {"num", "null"}

\* the candidate the translator is to return for a wrapped object
CandidateOf(text, question, cand) ==
    /\ cand.sql_query \in { v.s : v \in KeyValues(text, "sql_query") }
    /\ IF KeyValues(text, "original_query") = {}
       THEN cand.original_query = question
       ELSE cand.original_query \in { v.s : v \in KeyValues(text, "original_query") }
    /\ IF KeyValues(text, "confidence") = {}
       THEN cand.confidence = <<5>>
       ELSE cand.confidence \in
                { IF v.ty = "null" THEN << >> ELSE <<v.n>> :
                      v \in KeyValues(text, "confidence") }

\* the translator has been called and the model returned a text
Translated == translate_reply # << >> /\ ~translate_reply[1].raises

NoBracePair(text) ==
    \/ \A i \in 1..Len(text) : text[i] # LB
    \/ \A i \in 1..Len(text) : text[i] # RB

\* what lies from the first '{' to the last '}' is not a JSON object
MalformedPayload(text) ==
    /\ ~NoBracePair(text)
    /\ LET i == CHOOSE n \in 1..Len(text) :
                    text[n] = LB /\ \A m \in 1..(n - 1) : text[m] # LB
           j == CHOOSE n \in 1..Len(text) :
                    text[n] = RB /\ \A m \in (n + 1)..Len(text) : text[m] # RB
       IN  \/ j < i
           \/ \E k \in (i + 1)..(j - 1) :
                  text[k].t \notin {"member", "ws", "fence", "fence_json"}

\* the object parsed from the text has no sql_query key
LacksSqlQuery(text) ==
    /\ ~NoBracePair(text)
    /\ ~MalformedPayload(text)
    /\ KeyValues(text, "sql_query") = {}

\* the run failed in translation, with no candidate, gate call or executor call
FailedInTranslation ==
    /\ pc = "ERROR"
    /\ trace = <<"START", "SERVICES_CHECKED", "ERROR">>
    /\ sql_result = << >>
    /\ raised # << >>
    /\ raised[1].cls = "Exception"
    /\ calls.gate = 0 /\ gate_arg = << >>
    /\ calls.execute = 0 /\ exec_arg = << >>
    /\ calls.compose = 0

\* C15: when the model's text is not empty and has no '{' ... '}' pair, or
\* the payload between the braces is not valid JSON, or the object has no
\* sql_query key, the translator raises and returns no candidate, and the run
\* ends in ERROR without the gate or the executor being called.
C15_UnparseableTextFailsTranslation ==
    /\ (/\ Translated
        /\ ModelText # << >>
        /\ \/ NoBracePair(ModelText)
           \/ MalformedPayload(ModelText)
           \/ LacksSqlQuery(ModelText)) =>
          /\ FailedInTranslation
          /\ cause = "unparseable"
    /\ cause = "unparseable" => FailedInTranslation

C15_Witness ==
    /\ Translated
    /\ LacksSqlQuery(ModelText)
    /\ FailedInTranslation
    /\ prev # << >>
    /\ prev[1].cause = "unparseable"
    /\ prev[1].error # outcome[1].error

(***************************************************************************)
(* Empty model text                                                        *)
(***************************************************************************)
\* the composer has been called and the model returned a text
Composed == compose_reply # << >> /\ ~compose_reply[1].raises

\* C16: a model call that returns an empty text fails the run at both
\* stages: in translation the run ends in ERROR with the translator's "did
\* not generate a response" failure before the gate or the executor is
\* called; in composition the run ends in ERROR with the composer's failure
\* and no outcome with an empty answer is returned.
C16_EmptyTextIsFailure ==
    /\ (Translated /\ ModelText = << >>) =>
          /\ FailedInTranslation
          /\ cause = "empty_text"
          /\ raised[1].msg[Len(raised[1].msg)] = "Gemini did not generate a response"
    /\ (Composed /\ compose_reply[1].text = << >>) =>
          /\ pc = "ERROR"
          /\ cause = "empty_text"
          /\ natural_answer = << >>
          /\ raised # << >>
          /\ raised[1].msg[Len(raised[1].msg)] =
                 "Gemini did not generate a response for build_answer"
          /\ outcome # << >>
          /\ "answer" \notin DOMAIN outcome[1]
          /\ "error" \in DOMAIN outcome[1]

C16_Witness ==
    /\ Composed
    /\ compose_reply[1].text = << >>
    /\ pc = "ERROR"
    /\ http # << >>
    /\ prev # << >>
    /\ prev[1].cause = "empty_text"
    /\ prev[1].msg[Len(prev[1].msg)] = "Gemini did not generate a response"

(***************************************************************************)
(* The rows of the narration prompt                                        *)
(***************************************************************************)
Min(a, b) == IF a < b THEN a ELSE b

\* C17: for a result of n rows the narration prompt holds exactly the first
\* min(n, 10) rows, in result order: all of them when n <= 10, rows 1 to 10
\* when n > 10; and the rows build_answer is given are all the rows the
\* database returned.
C17_PromptHoldsFirstTenRows ==
    compose_arg # << >> =>
        LET given == compose_arg[1]
            n     == Len(given)
        IN  /\ prompt_rows # << >>
            /\ Len(prompt_rows[1]) = Min(n, 10)
            /\ \A i \in 1..Min(n, 10) : prompt_rows[1][i] = given[i]
            /\ n <= 10 => prompt_rows[1] = given
            /\ db_reply # << >>
            /\ given = db_reply[1].data
            /\ query_result = <<given>>

C17_Witness ==
    /\ compose_arg # << >>
    /\ Len(compose_arg[1]) > 10
    /\ Len(prompt_rows[1]) = 10
    /\ prompt_rows[1][10] = compose_arg[1][10]
    /\ pc = "DONE"

(***************************************************************************)
(* The health report                                                       *)
(***************************************************************************)
\* C19: the status of a health report is one of healthy, degraded and
\* unhealthy; it is healthy exactly when the database and the model are both
\* reported reachable, unhealthy exactly when neither is, degraded exactly
\* when one of the two is; a service is reported reachable exactly when it is
\* configured and its probe succeeded; and the report the endpoint delivers is
\* that report.
C19_HealthStatusFollowsServices ==
    probe # << >> =>
        LET report   == probe[1].report
            database == report.services.database
            llm      == report.services.llm
        IN  /\ report.status \in {"healthy", "degraded", "unhealthy"}
            /\ report.status = "healthy" <=> (database /\ llm)
            /\ report.status = "unhealthy" <=> (~database /\ ~llm)
            /\ report.status = "degraded" <=> (database # llm)
            /\ database <=> (supabase /\ probe[1].ping = <<FALSE>>)
            /\ llm <=> (/\ model
                        /\ ~probe[1].reply[1].raises
                        /\ Contains(Lower(probe[1].reply[1].text), <<"o","k">>))
            /\ health[1].report \in {<< >>, <<report>>}
            /\ health[1].report # << >> =>
                  (health[1].status_code = 200 <=> report.status = "healthy")

C19_Witness ==
    /\ probe # << >>
    /\ supabase /\ model
    /\ probe[1].ping = <<TRUE>>
    /\ probe[1].reply = <<[raises |-> FALSE, text |-> <<"T","o","k","e","n"," ","l","i","m","i","t">>]>>
    /\ health[1].report # << >>
    /\ health[1].report[1].status = "degraded"
    /\ health[1].report[1].services = [database |-> FALSE, llm |-> TRUE]
    /\ health[1].status_code = 503

(***************************************************************************)
(* Runs of the same processor                                              *)
(***************************************************************************)
\* the two runs at hand: the running one and the suspended one
BothRuns == {Locals} \cup Range(parked)

Finished(r) == r.pc \in {"DONE", "ERROR"} /\ r.outcome # << >>

\* what a run was given: the question and what the model and the database
\* answered to it
InputsOf(r) == <<r.human_query, r.translate_reply, r.db_reply, r.compose_reply>>

\* what an outcome says: sql_query and answer, or the error
Content(result) ==
    IF "error" \in DOMAIN result
    THEN [error |-> result.error, details |-> result.details]
    ELSE [sql_query |-> result.sql_query, answer |-> result.answer]

\* C18: two runs of the pipeline with the same question, the same model
\* outputs and the same database rows (the schema is a constant of the
\* program) end with the same sql_query and the same answer, or the same
\* error, whether the second starts after the first has ended or not.
C18_SameInputsSameOutcome ==
    \A r1, r2 \in BothRuns :
        (Finished(r1) /\ Finished(r2) /\ InputsOf(r1) = InputsOf(r2)) =>
            Content(r1.outcome[1]) = Content(r2.outcome[1])

C18_Witness ==
    /\ parked # << >>
    /\ runs = 2
    /\ Finished(Locals) /\ Finished(parked[1])
    /\ pc = "DONE" /\ parked[1].pc = "DONE"
    /\ InputsOf(Locals) = InputsOf(parked[1])
    /\ outcome[1].answer = <<"T","h","e","r","e"," ","a","r","e"," ","3"," ","u","s","e","r","s",".">>
    /\ parked[1].outcome[1].answer = outcome[1].answer
    /\ parked[1].outcome[1].sql_query = outcome[1].sql_query

\* the outcome of process_human_query run on its own on the given inputs
AloneOutcome(q, tr, dr, cr) ==
    LET v == verify_services_configured(supabase, model)
    IN  IF v # NoExc THEN ExceptClauses(v, 0).response
        ELSE LET t == human_query_to_sql(model, q, tr[1])
             IN  IF t.exc # NoExc THEN ExceptClauses(t.exc, 0).response
                 ELSE IF ~validate_query_safety(t.val.sql_query)
                 THEN SecurityRejection(0)
                 ELSE LET e == execute_query(supabase, t.val.sql_query, dr[1])
                      IN  IF e.exc # NoExc THEN ExceptClauses(e.exc, 0).response
                          ELSE LET b == build_answer(model, e.val, q, cr[1])
                               IN  IF b.exc # NoExc
                                   THEN ExceptClauses(b.exc, 0).response
                                   ELSE HumanQueryResponse(b.val, t.val.sql_query, 0)

\* the run has used nothing but its own candidate and its own rows
OwnData(r) ==
    /\ r.gate_arg # << >> => r.gate_arg = <<r.sql_result[1].sql_query>>
    /\ r.exec_arg # << >> => r.exec_arg = <<r.sql_result[1].sql_query>>
    /\ r.compose_arg # << >> => r.compose_arg = r.query_result
    /\ r.sql_result # << >> =>
          /\ r.translate_reply # << >>
          /\ r.sql_result[1] = human_query_to_sql(TRUE, r.human_query,
                                                  r.translate_reply[1]).val
    /\ r.query_result # << >> =>
          /\ r.db_reply # << >>
          /\ r.query_result = <<r.db_reply[1].data>>

\* C20: with the steps of two runs interleaved in any order, the outcome of
\* each run (sql_query and answer, or error) is the outcome the pipeline gives
\* on its own for that run's question and the replies that run received, and
\* each run checks, executes and narrates its own candidate and rows.
C20_InterleavedRunsAreIsolated ==
    \A r \in BothRuns :
        /\ OwnData(r)
        /\ Finished(r) =>
              Content(r.outcome[1]) =
                  Content(AloneOutcome(r.human_query, r.translate_reply,
                                       r.db_reply, r.compose_reply))

\* two handlers, neither of which has returned yet, hold the outcomes of
\* their runs, with different candidates and different answers
C20_Witness ==
    /\ parked # << >>
    /\ pc = "DONE" /\ parked[1].pc = "DONE"
    /\ http = << >> /\ parked[1].http = << >>
    /\ outcome[1].sql_query # parked[1].outcome[1].sql_query
    /\ outcome[1].answer # parked[1].outcome[1].answer
    /\ compose_arg # parked[1].compose_arg


(***************************************************************************)
(* The candidate's confidence                                              *)
(***************************************************************************)
\* the text without its confidence member
RECURSIVE WithoutConfidence(_)
WithoutConfidence(text) ==
    IF text = << >> THEN << >>
    ELSE IF Head(text).t = "member" /\ Head(text).k = "confidence"
    THEN WithoutConfidence(Tail(text))
    ELSE <<Head(text)>> \o WithoutConfidence(Tail(text))

\* r1 and r2 are two ended runs on the same question whose model texts
\* differ at most in the confidence member, and which got the same rows and
\* the same narration wherever both asked for them
DifferOnlyInConfidence(r1, r2) ==
    /\ Finished(r1) /\ Finished(r2)
    /\ r1.human_query = r2.human_query
    /\ r1.translate_reply # << >> /\ r2.translate_reply # << >>
    /\ ~r1.translate_reply[1].raises /\ ~r2.translate_reply[1].raises
    /\ WithoutConfidence(r1.translate_reply[1].text) =
           WithoutConfidence(r2.translate_reply[1].text)
    /\ r1.translate_reply[1].text # r2.translate_reply[1].text
    /\ (r1.db_reply = r2.db_reply \/ << >> \in {r1.db_reply, r2.db_reply})
    /\ (r1.compose_reply = r2.compose_reply
            \/ << >> \in {r1.compose_reply, r2.compose_reply})

\* the two runs made the same calls with the same arguments and ended alike
SameCallsAndOutcome(r1, r2) ==
    /\ r1.calls = r2.calls
    /\ r1.gate_arg = r2.gate_arg
    /\ r1.verdict = r2.verdict
    /\ r1.exec_arg = r2.exec_arg
    /\ r1.compose_arg = r2.compose_arg
    /\ r1.prompt_rows = r2.prompt_rows
    /\ r1.pc = r2.pc
    /\ Content(r1.outcome[1]) = Content(r2.outcome[1])

\* the confidence the text gives, if any, is a number or null
NumericConfidence(r) ==
    \A v \in KeyValues(r.translate_reply[1].text, "confidence") :
        v.ty \in {"num", "null"}

BeginsWithSelectOrWith(sql) ==
    \/ IsPrefix(<<"s","e","l","e","c","t">>, Lower(sql))
    \/ IsPrefix(<<"w","i","t","h">>, Lower(sql))

\* the statement contains one of the seven words the function refuses
HasRefusedWord(sql) ==
    \E w \in { <<"d","r","o","p">>, <<"d","e","l","e","t","e">>, <<"u","p","d","a","t","e">>, <<"i","n","s","e","r","t">>, <<"c","r","e","a","t","e">>,
               <<"a","l","t","e","r">>, <<"t","r","u","n","c","a","t","e">> } : Contains(Lower(sql), w)

\* C22: with no gate in front of it, execute_query on a connected database
\* raises "Error executing query: ..." and returns no rows for every
\* statement that does not begin with SELECT or WITH and for every statement
\* that contains drop, delete, update, insert, create, alter or truncate in
\* any case, whatever the database would have answered; other statements are
\* refused only if the database call itself fails.
C22_ExecutorRefusesOnItsOwn ==
    (db_reply # << >> /\ supabase) =>
        LET sql     == exec_arg[1]
            refused == ~BeginsWithSelectOrWith(sql) \/ HasRefusedWord(sql)
        IN  /\ refused =>
                  /\ query_result = << >>
                  /\ raised # << >>
                  /\ raised[1].cls = "Exception"
                  /\ raised[1].msg[1] = "Error executing query: "
                  /\ raised[1].msg[2] \in {"Solo se permiten consultas SELECT y WITH",
                                           "Operaciones no permitidas detectadas"}
            /\ (~refused /\ ~db_reply[1].raises) =>
                  /\ raised = << >>
                  /\ query_result = <<db_reply[1].data>>
            /\ verdict = "none" /\ calls.gate = 0

C22_Witness ==
    /\ db_reply # << >>
    /\ supabase
    /\ ~db_reply[1].raises
    /\ Len(db_reply[1].data) = 1
    /\ exec_arg = << <<"W","I","T","H"," ","x"," ","A","S"," ","(","t","r","u","n","c","a","t","e">> >>
    /\ raised # << >>
    /\ raised[1].msg[2] = "Operaciones no permitidas detectadas"
    /\ query_result = << >>

\* C24: a statement that the gate judged SAFE and that the pipeline handed
\* to the executor passes the prefix check and the keyword check of the
\* database-side function: the executor does not refuse it.
C24_GateAcceptedIsNotRefused ==
    (verdict = "SAFE" /\ exec_arg # << >>) =>
        /\ BeginsWithSelectOrWith(exec_arg[1])
        /\ ~HasRefusedWord(exec_arg[1])
        /\ (db_reply # << >> /\ ~db_reply[1].raises) => pc # "ERROR"

\* C23: the confidence of every candidate the translator returns is absent
\* or a number from 0 to 1 (0 to 10 tenths), whatever the model wrote.
C23_ConfidenceWithinUnitInterval ==
    sql_result # << >> =>
        \/ sql_result[1].confidence = << >>
        \/ sql_result[1].confidence[1] \in 0..10

(***************************************************************************)
(* The configuration error                                                 *)
(***************************************************************************)
ConfigurationReport == <<"Service not configured correctly">>

\* C25: a run reports 'Service not configured correctly' only if its
\* services check found a dependency unconfigured; a run that got past the
\* services check and then failed in the translator, the gate, the executor
\* or the composer reports another error.
C25_ConfigurationErrorOnlyFromServicesCheck ==
    /\ (outcome # << >> /\ "error" \in DOMAIN outcome[1]
            /\ outcome[1].error = ConfigurationReport) =>
          /\ cause = "unconfigured"
          /\ ~supabase \/ ~model
          /\ trace = <<"START", "ERROR">>
    /\ (pc = "ERROR" /\ cause # "unconfigured") =>
          outcome[1].error # ConfigurationReport

\* a translator failure whose inner exception is a ValueError (no sql_query
\* key) is followed, in the report, by a text other than the configuration
\* error
C25_Witness ==
    /\ pc = "ERROR"
    /\ cause = "unparseable"
    /\ Translated
    /\ LacksSqlQuery(ModelText)
    /\ outcome[1].error # ConfigurationReport
    /\ raised[1].msg[Len(raised[1].msg)] = "Respuesta de Gemini no contiene 'sql_query'"

\* the quantity of product p that the items order in all
RECURSIVE Total(_, _)
Total(items, p) ==
    IF items = << >> THEN 0
    ELSE (IF Head(items).product_id = p THEN Head(items).quantity ELSE 0)
         + Total(Tail(items), p)

\* the create-order request of handler h was accepted: its items were found
\* valid and create_order returned the order
Accepted(h) == task[h].pc = "done" /\ task[h].status = 200 /\ task[h].items # << >>

\* C26: after any sequence of create-order requests the stock of every
\* product is at least 0, provided it was so before the first: the stock
\* update never writes a negative stock.
C26_StockNeverNegative ==
    \A p \in Products : stock[p] >= 0

\* an accepted order whose quantities of a product exceed the stock it had,
\* and the stock was brought to 0
C26_Witness ==
    /\ Accepted(1)
    /\ \E p \in Products :
          /\ Total(task[1].items, p) > task[1].before[1][p]
          /\ stock[p] = 0

\* C27: when the create-order endpoint accepts an order, the stock of every
\* product afterwards is its stock before the request less the total quantity
\* of that product over all items of the order, also when several items name
\* the same product.
C27_AcceptedOrderDecrementsStock ==
    Accepted(1) =>
        \A p \in Products :
            stock[p] = task[1].before[1][p] - Total(task[1].items, p)

\* the quantity of product p over the items of all stored orders
RECURSIVE Ordered(_, _)
Ordered(table, p) ==
    IF table = << >> THEN 0
    ELSE Total(Head(table).items, p) + Ordered(Tail(table), p)

\* no create-order request is under way
Quiet == \A h \in Handlers : task[h].pc \in {"idle", "done"}

\* C28: once concurrent create-order requests for a product have all been
\* handled, no decrement of its stock is lost: the stock is
\* max(0, initial stock - sum of all ordered quantities).
C28_NoDecrementLost ==
    Quiet =>
        \A p \in Products :
            stock[p] = Max(0, stock0[p] - Ordered(orders, p))

C30_StatusStaysValid ==
    /\ \A k \in 1..Len(orders) : orders[k].status \in valid_statuses
    /\ \A h \in Handlers :
          task[h].row # << >> => task[h].row[1].status = "pending"
    /\ (last # << >> /\ last[1].status \notin valid_statuses)
          => (last[1].result = << >> /\ last[1].after = last[1].before)

\* an order was created, and a call with a status outside the list named
\* it and was refused
C30_Witness ==
    /\ last # << >>
    /\ last[1].status \notin valid_statuses
    /\ last[1].order_id \in 1..Len(last[1].before)
    /\ last[1].code = 0
    /\ last[1].result = << >>
    /\ orders = last[1].before

=============================================================================
